---------------------------- MODULE Spec2Model ----------------------------
(***************************************************************************)
(* A model of rift (lib/index.ts): the process-wide connection pool and    *)
(* its initializer init_pool, the query executor and the insert, update    *)
(* and remove statement builders.                                          *)
(*                                                                         *)
(* SQL text is a sequence of tokens (whitespace dropped), a placeholder    *)
(* `$${n}` is the token "$" \o ToString(n), a JS object is the sequence of *)
(* its own entries in insertion order, and the pg driver (Pool.connect,    *)
(* Client.query) is the environment: it resolves or rejects.               *)
(***************************************************************************)
EXTENDS Integers, Sequences, FiniteSets, TLC

VARIABLES
    pool,          \* the exported `pool` binding: NoPool until assigned
    poolsCreated,  \* number of `new pg.Pool(...)` evaluations so far
    clientsMade,   \* number of clients the pool has handed out so far
    checkedOut,    \* ids of the clients currently checked out of the pool
    calls,         \* the init_pool invocations, by call id
    callOrder,     \* call ids in the order init_pool was invoked
    issued,        \* statements submitted through conn.query, in order
    dbScripts,     \* initialization scripts the database has executed
    hcall,         \* the helper invocation under way (query/insert/update/remove)
    hpc,           \* "idle", "awaiting" (suspended in conn.query) or "done"
    driver,        \* what conn.query did for the helper: rows or a thrown value
    hret           \* how the helper completed: its value or what it threw

vars == <<pool, poolsCreated, clientsMade, checkedOut, calls, callOrder,
          issued, dbScripts, hcall, hpc, driver, hret>>

poolVars == <<pool, poolsCreated, clientsMade, checkedOut, calls, callOrder,
              dbScripts>>

helperVars == <<hcall, hpc, driver, hret>>

(***************************************************************************)
(* Bounds of the model.                                                    *)
(***************************************************************************)
NumCalls == 3      \* init_pool invocations in one behaviour
MaxRows == 2       \* rows in one insert call
MaxResultRows == 2 \* rows in a driver result

CallIds == 1..NumCalls

(***************************************************************************)
(* JavaScript values.                                                      *)
(***************************************************************************)
Undefined == [type |-> "undefined", v |-> ""]
JSValues ==
    { [type |-> "number", v |-> "1"],
      [type |-> "string", v |-> "a"],
      [type |-> "bigint", v |-> "2"] }

\* The values a caller stores under a column of the table `list`.
ColumnValues(key) ==
    IF key = "id" THEN { v \in JSValues : v.type \in {"number", "bigint"} }
    ELSE { v \in JSValues : v.type \in {"string", "number"} }

\* An optional string: `undefined` or a present string.
Absent == [present |-> FALSE, s |-> ""]
Some(s) == [present |-> TRUE, s |-> s]

\* JS truthiness of an optional string: undefined and '' are falsy.
TruthyStr(o) == o.present /\ o.s # ""

\* `x ?? dflt` on an optional string: only undefined takes the default.
NullishOr(o, dflt) == IF o.present THEN o.s ELSE dflt

\* Array.prototype.join on token sequences: the parts separated by `sep`.
RECURSIVE Join(_, _)
Join(parts, sep) ==
    IF parts = <<>> THEN <<>>
    ELSE IF Len(parts) = 1 THEN parts[1]
    ELSE parts[1] \o <<sep>> \o Join(Tail(parts), sep)

\* Object.keys / Object.values / property read of a plain object.
ObjectKeys(o) == [i \in 1..Len(o) |-> o[i].k]
ObjectValues(o) == [i \in 1..Len(o) |-> o[i].v]
GetProp(o, key) ==
    IF \E i \in 1..Len(o) : o[i].k = key
    THEN o[CHOOSE i \in 1..Len(o) : o[i].k = key].v
    ELSE Undefined

\* The positional placeholder `$${n}`.
Dollar(n) == "$" \o ToString(n)

\* JSON.stringify of an array: a bigint element makes it throw a TypeError,
\* an undefined element is written as null.
JSONSerializable(values) == \A i \in 1..Len(values) : values[i].type # "bigint"
JSONElement(x) ==
    IF x.type = "undefined" THEN "null"
    ELSE IF x.type = "string" THEN "\"" \o x.v \o "\""
    ELSE x.v
JSONStringify(values) ==
    <<"[">> \o Join([i \in 1..Len(values) |-> <<JSONElement(values[i])>>], ",")
            \o <<"]">>

(***************************************************************************)
(* Errors.  A thrown value carries its class; a RiftError's message is the *)
(* sequence of its lines, each a label followed by the interpolated body.  *)
(***************************************************************************)
Line(label, body) == [label |-> label, body |-> body]

RiftError(lines) == [class |-> "RiftError", message |-> lines]

TypeErrorBigInt ==
    [class |-> "TypeError", message |-> "Do not know how to serialize a BigInt"]

\* What conn.query can reject with: pg.DatabaseError, another Error, or a
\* thrown value that is no Error at all.
DatabaseErrors ==
    { [class |-> "DatabaseError", message |-> "duplicate key", code |-> c,
       detail |-> d, hint |-> IF d.present THEN Absent ELSE Some("retry"),
       position |-> IF c.present THEN Absent ELSE Some("7")] :
        c \in {Absent, Some("23505")}, d \in {Absent, Some("")} }
OtherErrors ==
    { [class |-> "Error", message |-> "Connection terminated", code |-> Absent,
       detail |-> Absent, hint |-> Absent, position |-> Absent],
      [class |-> "NotAnError", message |-> "thrown string", code |-> Absent,
       detail |-> Absent, hint |-> Absent, position |-> Absent] }
QueryErrors == DatabaseErrors \cup OtherErrors

\* `e instanceof pg.DatabaseError`, `e instanceof Error`.
IsDatabaseError(e) == e.class = "DatabaseError"
IsError(e) == e.class \in {"DatabaseError", "Error"}

\* The message of the RiftError built for a pg.DatabaseError.
DatabaseErrorLines(e, text, values) ==
    << Line("Database Error: ", <<e.message>>),
       Line("", <<>>),
       Line("Code: ", <<NullishOr(e.code, "N/A")>>),
       Line("Detail: ", <<NullishOr(e.detail, "N/A")>>),
       Line("Hint: ", <<NullishOr(e.hint, "N/A")>>),
       Line("Position: ", <<NullishOr(e.position, "N/A")>>),
       Line("Query: ", text),
       Line("Values: ", JSONStringify(values)) >>

\* The catch block of query: what it throws for the caught value e.  The
\* template literal is evaluated before RiftError is constructed, so a
\* JSON.stringify that throws escapes the catch block as it is.
QueryCatchRethrow(e, text, values) == e
QueryCatch(e, text, values) ==
    IF IsDatabaseError(e)
    THEN IF JSONSerializable(values)
         THEN RiftError(DatabaseErrorLines(e, text, values))
         ELSE TypeErrorBigInt
    ELSE RiftError(<< Line("Query failed: ",
                           <<IF IsError(e) THEN e.message ELSE "unknown error">>) >>)

(***************************************************************************)
(* The pool and init_pool.                                                 *)
(***************************************************************************)
NoPool == [exists |-> FALSE, name |-> "", max |-> 0]

Names == {"main", "replica"}
Scripts == { Absent, Some(""), Some("create table if not exists list") }
Confs == [name : Names, max : {1, 1000}, initial_script : Scripts]

\* What pool.connect() can reject with.
ConnectErrors ==
    { [class |-> "Error", message |-> "connect ECONNREFUSED"],
      [class |-> "DatabaseError", message |-> "password authentication failed"] }

\* `new pg.Pool({...auth, max: conf.max})` with the listeners labelled by name.
NewPool(conf) == [exists |-> TRUE, name |-> conf.name, max |-> conf.max]

\* `if (pool) return;`
PoolTruthyNever(p) == FALSE
PoolTruthy(p) == p.exists

NoClient == [id |-> 0, hasRelease |-> FALSE]
NoErr == [class |-> "none"]

IdleCall ==
    [pc |-> "idle", conf |-> [name |-> "main", max |-> 1, initial_script |-> Absent],
     conn |-> NoClient, acquired |-> {}, stage |-> "none", err |-> NoErr]

\* pg.Client.prototype[Symbol.dispose]: release(true) when the client is a
\* pool client; the released client leaves the checked-out set.
DisposeKeep(client, out) == out
Dispose(client, out) ==
    IF client.hasRelease THEN out \ {client.id} ELSE out

\* The text of a script submitted as a single statement.
ScriptText(conf) == <<conf.initial_script.s>>

\* init_pool(conf) up to its first suspension point.
InitPool(i, conf) ==
    /\ calls[i].pc = "idle"
    /\ callOrder' = Append(callOrder, i)
    /\ IF PoolTruthy(pool)
       THEN /\ calls' = [calls EXCEPT ![i].pc = "returned", ![i].conf = conf]
            /\ UNCHANGED <<pool, poolsCreated>>
       ELSE /\ pool' = NewPool(conf)
            /\ poolsCreated' = poolsCreated + 1
            /\ calls' = [calls EXCEPT
                           ![i].conf = conf,
                           ![i].pc = IF ~TruthyStr(conf.initial_script)
                                     THEN "returned" ELSE "connecting"]
    /\ UNCHANGED <<clientsMade, checkedOut, issued, dbScripts, helperVars>>

\* `await pool.connect()` resolves: the client is bound by `using`, and
\* query(conn, conf.initial_script) submits the script and suspends.
ConnectResolve(i) ==
    /\ calls[i].pc = "connecting"
    /\ clientsMade' = clientsMade + 1
    /\ checkedOut' = checkedOut \cup {clientsMade + 1}
    /\ calls' = [calls EXCEPT
                   ![i].pc = "querying",
                   ![i].stage = "query",
                   ![i].conn = [id |-> clientsMade + 1, hasRelease |-> TRUE],
                   ![i].acquired = @ \cup {clientsMade + 1}]
    /\ issued' = Append(issued, [call |-> i, text |-> ScriptText(calls[i].conf),
                                 values |-> <<>>])
    /\ UNCHANGED <<pool, poolsCreated, callOrder, dbScripts, helperVars>>

\* `await pool.connect()` rejects: nothing is bound, the rejection leaves
\* init_pool as it is.
ConnectReject(i, e) ==
    /\ calls[i].pc = "connecting"
    /\ calls' = [calls EXCEPT ![i].pc = "thrown", ![i].stage = "connect",
                              ![i].err = e]
    /\ UNCHANGED <<pool, poolsCreated, clientsMade, checkedOut, callOrder,
                   issued, dbScripts, helperVars>>

\* The script's query resolves: query returns the rows, the timer ends, the
\* `using` scope exits and disposes the client, init_pool returns.
ScriptResolve(i) ==
    /\ calls[i].pc = "querying"
    /\ dbScripts' = Append(dbScripts, ScriptText(calls[i].conf))
    /\ checkedOut' = Dispose(calls[i].conn, checkedOut)
    /\ calls' = [calls EXCEPT ![i].pc = "returned"]
    /\ UNCHANGED <<pool, poolsCreated, clientsMade, callOrder, issued,
                   helperVars>>

\* The script's query rejects: query's catch block throws, the `using` scope
\* exits and disposes the client, init_pool throws.
ScriptReject(i, e) ==
    /\ calls[i].pc = "querying"
    /\ checkedOut' = Dispose(calls[i].conn, checkedOut)
    /\ calls' = [calls EXCEPT
                   ![i].pc = "thrown",
                   ![i].err = QueryCatch(e, ScriptText(calls[i].conf), <<>>)]
    /\ UNCHANGED <<pool, poolsCreated, clientsMade, callOrder, issued,
                   dbScripts, helperVars>>

PoolInit ==
    /\ pool = NoPool
    /\ poolsCreated = 0
    /\ clientsMade = 0
    /\ checkedOut = {}
    /\ calls = [i \in CallIds |-> IdleCall]
    /\ callOrder = <<>>
    /\ dbScripts = <<>>

HelperIdle ==
    /\ hcall = [op |-> "none", table |-> "", data |-> <<>>,
                conflict |-> [defined |-> FALSE, cols |-> <<>>], where |-> <<>>,
                text |-> <<>>, values |-> <<>>]
    /\ hpc = "idle"
    /\ driver = [kind |-> "none", rows |-> <<>>, e |-> NoErr]
    /\ hret = [kind |-> "none", rows |-> <<>>, err |-> NoErr]

Init ==
    /\ PoolInit
    /\ issued = <<>>
    /\ HelperIdle

Next ==
    \/ \E i \in CallIds, conf \in Confs : InitPool(i, conf)
    \/ \E i \in CallIds : ConnectResolve(i)
    \/ \E i \in CallIds, e \in ConnectErrors : ConnectReject(i, e)
    \/ \E i \in CallIds : ScriptResolve(i)
    \/ \E i \in CallIds, e \in QueryErrors : ScriptReject(i, e)

Spec == Init /\ [][Next]_vars

(***************************************************************************)
(* The helpers: query, insert, update, remove on a caller's connection.    *)
(***************************************************************************)
Keys == {"id", "value"}
Tables == {"list"}

\* The plain objects over Keys: every order of every subset of the keys.
RECURSIVE ObjectsOfLen(_)
ObjectsOfLen(n) ==
    IF n = 0 THEN { <<>> }
    ELSE { Append(o, [k |-> key, v |-> val]) :
             o \in ObjectsOfLen(n - 1), key \in Keys, val \in JSValues }
DistinctKeys(o) == \A i, j \in 1..Len(o) : o[i].k = o[j].k => i = j
Objects ==
    { o \in UNION { ObjectsOfLen(n) : n \in 0..Cardinality(Keys) } :
        /\ DistinctKeys(o)
        /\ \A i \in 1..Len(o) : o[i].v \in ColumnValues(o[i].k) }

RECURSIVE SeqsUpTo(_, _)
SeqsUpTo(S, n) ==
    IF n = 0 THEN { <<>> }
    ELSE LET shorter == SeqsUpTo(S, n - 1)
         IN  shorter \cup { Append(q, x) : q \in { t \in shorter : Len(t) = n - 1 },
                                           x \in S }

\* `conflict?: Array<keyof T>`: omitted, empty, or a list of columns.
NoConflict == [defined |-> FALSE, cols |-> <<>>]
Conflicts == { NoConflict, [defined |-> TRUE, cols |-> <<>>],
               [defined |-> TRUE, cols |-> <<"id">>] }

\* Rows the driver can report.
ResultRowObjects ==
    { << [k |-> "id", v |-> [type |-> "number", v |-> "1"]],
         [k |-> "value", v |-> [type |-> "string", v |-> "a"]] >>,
      << [k |-> "id", v |-> [type |-> "bigint", v |-> "2"]],
         [k |-> "value", v |-> [type |-> "string", v |-> "a"]] >> }
ResultSets == SeqsUpTo(ResultRowObjects, MaxResultRows)

QueryTexts == { <<"select * from list where id = any($1)">>, <<"select 1">> }

NoCall ==
    [op |-> "none", table |-> "", data |-> <<>>, conflict |-> NoConflict,
     where |-> <<>>, text |-> <<>>, values |-> <<>>]

\* How a helper completes.
ReturnRows(rows) == [kind |-> "rows", rows |-> rows, err |-> NoErr]
ReturnRow(row) == [kind |-> "row", rows |-> <<row>>, err |-> NoErr]
ReturnVoid == [kind |-> "void", rows |-> <<>>, err |-> NoErr]
Throw(err) == [kind |-> "throw", rows |-> <<>>, err |-> err]

\* ---- insert ----

\* `if (!data.length) return [];`
InsertEmptyNegated(data) == Len(data) # 0
InsertEmpty(data) == Len(data) = 0

\* `rowIndex * keys.length + i + 1`, rowIndex and i counted from 0.
PlaceholderNumberPerRow(rowIndex, k, i) == i + 1
PlaceholderNumber(rowIndex, k, i) == rowIndex * k + i + 1

\* `keys.map((key) => row[key])`
RowValues(keys, row) == [c \in 1..Len(keys) |-> GetProp(row, keys[c])]

\* `(${rowValues.map((_, i) => `$${...}`).join(', ')})`
RowPlaceholders(rowIndex, k, rowValues) ==
    <<"(">> \o Join([c \in 1..Len(rowValues) |->
                        <<Dollar(PlaceholderNumber(rowIndex, k, c - 1))>>], ",")
            \o <<")">>

\* The loop over the rows: the parameter list and the VALUES groups after
\* the rows from rowIndex (counted from 0) on have been pushed.
RECURSIVE InsertLoop(_, _, _, _, _)
InsertLoop(data, keys, rowIndex, values, valuePlaceholders) ==
    IF ~(rowIndex < Len(data))
    THEN [values |-> values, valuePlaceholders |-> valuePlaceholders]
    ELSE LET rowValues == RowValues(keys, data[rowIndex + 1])
         IN  InsertLoop(data, keys, rowIndex + 1, values \o rowValues,
                        Append(valuePlaceholders,
                               RowPlaceholders(rowIndex, Len(keys), rowValues)))

\* `conflict?.length ? `ON CONFLICT (...) DO UPDATE SET ...` : ''`
UpdateClause(keys, conflict) ==
    IF conflict.defined /\ Len(conflict.cols) # 0
    THEN <<"ON CONFLICT", "(">> \o Join([c \in 1..Len(conflict.cols) |->
                                           <<conflict.cols[c]>>], ",")
           \o <<")", "DO UPDATE SET">>
           \o Join([c \in 1..Len(keys) |->
                      <<keys[c], "=", "EXCLUDED." \o keys[c]>>], ",")
    ELSE <<>>

InsertStatement(table, data, conflict) ==
    LET keys == ObjectKeys(data[1])
        built == InsertLoop(data, keys, 0, <<>>, <<>>)
    IN  [text |-> <<"INSERT INTO", table, "(">>
                  \o Join([c \in 1..Len(keys) |-> <<keys[c]>>], ",")
                  \o <<")", "VALUES">>
                  \o Join(built.valuePlaceholders, ",")
                  \o UpdateClause(keys, conflict)
                  \o <<"RETURNING *;">>,
         values |-> built.values]

\* ---- update ----

\* `$${i + 1}` of the SET clause and `$${i + 1 + keys.length}` of the WHERE
\* clause, i counted from 0.
SetPlaceholder(i) == i + 1
WherePlaceholderRestart(i, n) == i + 1
WherePlaceholder(i, n) == i + 1 + n

UpdateStatement(table, where, data) ==
    LET keys == ObjectKeys(data)
        values == ObjectValues(data)
        where_keys == ObjectKeys(where)
        where_values == ObjectValues(where)
    IN  [text |-> <<"update", table, "set">>
                  \o Join([c \in 1..Len(keys) |->
                             <<keys[c], "=", Dollar(SetPlaceholder(c - 1))>>], ",")
                  \o <<"where">>
                  \o Join([c \in 1..Len(where_keys) |->
                             <<where_keys[c], "=",
                               Dollar(WherePlaceholder(c - 1, Len(keys)))>>], "and")
                  \o <<"returning *">>,
         values |-> values \o where_values]

\* `if (!res[0]) throw new RiftError(...); return res[0];`
UpdateFinishUnchecked(res) ==
    IF Len(res) = 0 THEN ReturnRows(<<>>) ELSE ReturnRow(res[1])
UpdateFinish(res) ==
    IF Len(res) = 0
    THEN Throw(RiftError(<< Line("Update failed: no rows affected", <<>>) >>))
    ELSE ReturnRow(res[1])

\* ---- remove ----

RemoveStatement(table, where) ==
    LET keys == ObjectKeys(where)
        values == ObjectValues(where)
    IN  [text |-> <<"delete from", table, "where">>
                  \o Join([c \in 1..Len(keys) |->
                             <<keys[c], "=", Dollar(c - 1 + 1)>>], "and"),
         values |-> values]

\* `await query(...)` with the rows dropped: remove resolves to undefined.
RemoveFinishChecked(res) ==
    IF Len(res) = 0
    THEN Throw(RiftError(<< Line("Remove failed: no rows affected", <<>>) >>))
    ELSE ReturnVoid
RemoveFinish(res) == ReturnVoid

\* ---- the calls ----

\* conn.query(text, values) is submitted and the helper suspends.
Submit(op, table, data, conflict, where, st) ==
    /\ hcall' = [op |-> op, table |-> table, data |-> data, conflict |-> conflict,
                 where |-> where, text |-> st.text, values |-> st.values]
    /\ issued' = Append(issued, [call |-> 0, text |-> st.text, values |-> st.values])
    /\ hpc' = "awaiting"
    /\ UNCHANGED <<driver, hret>>

CallQuery(text, values) ==
    /\ hpc = "idle"
    /\ Submit("query", "", <<>>, NoConflict, <<>>, [text |-> text, values |-> values])
    /\ UNCHANGED poolVars

CallInsert(table, data, conflict) ==
    /\ hpc = "idle"
    /\ IF InsertEmpty(data)
       THEN /\ hcall' = [NoCall EXCEPT !.op = "insert", !.table = table,
                                       !.data = data, !.conflict = conflict]
            /\ hret' = ReturnRows(<<>>)
            /\ hpc' = "done"
            /\ UNCHANGED <<issued, driver>>
       ELSE IF Len(data) = 0
       THEN \* Object.keys(data[0]) of a missing first row is a TypeError
            /\ hcall' = [NoCall EXCEPT !.op = "insert", !.table = table,
                                       !.data = data, !.conflict = conflict]
            /\ hret' = Throw([class |-> "TypeError",
                              message |-> "Cannot convert undefined to object"])
            /\ hpc' = "done"
            /\ UNCHANGED <<issued, driver>>
       ELSE Submit("insert", table, data, conflict, <<>>,
                   InsertStatement(table, data, conflict))
    /\ UNCHANGED poolVars

CallUpdate(table, where, data) ==
    /\ hpc = "idle"
    /\ Submit("update", table, data, NoConflict, where,
              UpdateStatement(table, where, data))
    /\ UNCHANGED poolVars

CallRemove(table, where) ==
    /\ hpc = "idle"
    /\ Submit("remove", table, <<>>, NoConflict, where, RemoveStatement(table, where))
    /\ UNCHANGED poolVars

\* conn.query resolves: query returns res.rows and the helper finishes.
DriverResolve(rows) ==
    /\ hpc = "awaiting"
    /\ driver' = [kind |-> "rows", rows |-> rows, e |-> NoErr]
    /\ hret' = CASE hcall.op = "update" -> UpdateFinish(rows)
                 [] hcall.op = "remove" -> RemoveFinish(rows)
                 [] OTHER -> ReturnRows(rows)
    /\ hpc' = "done"
    /\ UNCHANGED <<hcall, issued, poolVars>>

\* conn.query rejects: query's catch block throws and no helper catches it.
DriverReject(e) ==
    /\ hpc = "awaiting"
    /\ driver' = [kind |-> "throw", rows |-> <<>>, e |-> e]
    /\ hret' = Throw(QueryCatch(e, hcall.text, hcall.values))
    /\ hpc' = "done"
    /\ UNCHANGED <<hcall, issued, poolVars>>

HelperInit ==
    /\ PoolInit
    /\ issued = <<>>
    /\ HelperIdle

\* A caller invokes one helper on its connection; the driver then answers.
InvokeQuery ==
    /\ hpc = "idle"
    /\ \E text \in QueryTexts, values \in SeqsUpTo(JSValues, 1) : CallQuery(text, values)

InvokeInsert ==
    /\ hpc = "idle"
    /\ \E table \in Tables, data \in SeqsUpTo(Objects, MaxRows), conflict \in Conflicts :
          CallInsert(table, data, conflict)

InvokeUpdate ==
    /\ hpc = "idle"
    /\ \E table \in Tables, where \in Objects, data \in Objects :
          CallUpdate(table, where, data)

InvokeRemove ==
    /\ hpc = "idle"
    /\ \E table \in Tables, where \in Objects : CallRemove(table, where)

HelperNext ==
    \/ InvokeQuery
    \/ InvokeInsert
    \/ InvokeUpdate
    \/ InvokeRemove
    \/ \E rows \in ResultSets : DriverResolve(rows)
    \/ \E e \in QueryErrors : DriverReject(e)

HelperSpec == HelperInit /\ [][HelperNext]_vars

(***************************************************************************)
(* Reading a submitted statement back.                                     *)
(***************************************************************************)
MaxPlaceholder == (MaxRows + 1) * (Cardinality(Keys) + 1)
PlaceholderTokens == { Dollar(p) : p \in 0..MaxPlaceholder }
IsPlaceholder(tok) == tok \in PlaceholderTokens
PlaceholderPositions(text) == { j \in 1..Len(text) : IsPlaceholder(text[j]) }

\* The position of the first token `tok` of the text.
IndexOf(text, tok) ==
    CHOOSE j \in 1..Len(text) :
        text[j] = tok /\ \A m \in 1..(j - 1) : text[m] # tok

\* The positions of the "=" tokens strictly between two positions, and the
\* rank (from 1) of one of them.
EqualsBetween(text, lo, hi) == { j \in (lo + 1)..(hi - 1) : text[j] = "=" }
RankIn(S, j) == Cardinality({ m \in S : m <= j })

Completed(i) == calls[i].pc \in {"returned", "thrown"}

(***************************************************************************)
(* C1: only the first init_pool call constructs a pool and runs a script;  *)
(* every later call, whatever its configuration and whether or not the     *)
(* first call's script succeeded, returns at once, creates no pool,        *)
(* acquires no connection and submits no script, and the pool is the one   *)
(* built from the first call's configuration.                              *)
(***************************************************************************)
C1_OnlyFirstCallInitializes ==
    /\ poolsCreated <= 1
    /\ Len(issued) <= 1
    /\ callOrder # <<>> =>
         /\ poolsCreated = 1
         /\ pool = NewPool(calls[callOrder[1]].conf)
         /\ \A m \in 1..Len(issued) :
               /\ issued[m].call = callOrder[1]
               /\ issued[m].text = ScriptText(calls[callOrder[1]].conf)
         /\ \A m \in 2..Len(callOrder) :
               /\ calls[callOrder[m]].pc = "returned"
               /\ calls[callOrder[m]].acquired = {}

C1_Witness ==
    /\ Len(callOrder) >= 2
    /\ calls[callOrder[1]].pc = "thrown"
    /\ calls[callOrder[1]].stage = "query"
    /\ calls[callOrder[2]].pc = "returned"
    /\ TruthyStr(calls[callOrder[2]].conf.initial_script)
    /\ calls[callOrder[2]].conf.name # calls[callOrder[1]].conf.name
    /\ calls[callOrder[2]].conf.max # calls[callOrder[1]].conf.max

(***************************************************************************)
(* C2 as stated: every completed init_pool call that was given an          *)
(* initialization script acquired exactly one connection, and none of the  *)
(* connections it acquired is still checked out.                           *)
(***************************************************************************)
C2_ExactlyOneAcquiredAndReleased ==
    \A i \in CallIds :
        (Completed(i) /\ TruthyStr(calls[i].conf.initial_script)) =>
            /\ Cardinality(calls[i].acquired) = 1
            /\ calls[i].acquired \cap checkedOut = {}

(***************************************************************************)
(* C2 amended: an init_pool call acquires at most one connection, and      *)
(* only when it was given a script and is the call that created the pool;  *)
(* it acquired exactly one when pool.connect() resolved; once the call     *)
(* has returned or thrown, no connection it acquired is still checked out, *)
(* whether the script's query succeeded or failed.                         *)
(***************************************************************************)
C2_AcquiredConnectionReleased ==
    \A i \in CallIds :
        /\ Cardinality(calls[i].acquired) <= 1
        /\ calls[i].acquired # {} =>
             /\ TruthyStr(calls[i].conf.initial_script)
             /\ i = callOrder[1]
        /\ calls[i].stage = "query" => Cardinality(calls[i].acquired) = 1
        /\ calls[i].pc = "querying" => calls[i].acquired \subseteq checkedOut
        /\ Completed(i) => calls[i].acquired \cap checkedOut = {}

C2_Witness ==
    \E i \in CallIds :
        /\ calls[i].pc = "thrown"
        /\ calls[i].stage = "query"
        /\ Cardinality(calls[i].acquired) = 1
        /\ checkedOut = {}

(***************************************************************************)
(* C3: for an insert of n >= 1 rows with k columns (the first row's keys), *)
(* the parameter list has n*k entries, the placeholder of row r, column c  *)
(* (from 0) in the VALUES list is $(r*k + c + 1), the parameter at index   *)
(* r*k + c is column c of row r, and each of $1..$(n*k) occurs once.       *)
(***************************************************************************)
C3_InsertPlaceholderNumbering ==
    (hcall.op = "insert" /\ hpc # "idle" /\ Len(hcall.data) > 0) =>
        LET data == hcall.data
            n == Len(data)
            keys == ObjectKeys(data[1])
            k == Len(keys)
            text == issued[Len(issued)].text
            values == issued[Len(issued)].values
            vi == IndexOf(text, "VALUES")
            phs == PlaceholderPositions(text)
            RowOf(j) == Cardinality({ m \in vi..j : text[m] = ")" })
            OpenOf(j) == CHOOSE m \in 1..j :
                            text[m] = "(" /\ \A q \in (m + 1)..j : text[q] # "("
            ColOf(j) == Cardinality({ m \in phs : OpenOf(j) < m /\ m < j })
        IN  /\ Len(issued) = 1
            /\ Len(values) = n * k
            /\ Cardinality(phs) = n * k
            /\ \A j \in phs :
                  /\ j > vi
                  /\ RowOf(j) < n
                  /\ ColOf(j) < k
                  /\ text[j] = Dollar(RowOf(j) * k + ColOf(j) + 1)
                  /\ values[RowOf(j) * k + ColOf(j) + 1]
                        = GetProp(data[RowOf(j) + 1], keys[ColOf(j) + 1])
            /\ \A r \in 0..(n - 1), c \in 0..(k - 1) :
                  \E j \in phs : RowOf(j) = r /\ ColOf(j) = c
            /\ \A p \in 1..(n * k) :
                  Cardinality({ j \in phs : text[j] = Dollar(p) }) = 1

C3_Witness ==
    /\ hcall.op = "insert"
    /\ hpc = "awaiting"
    /\ Len(hcall.data) = 2
    /\ Len(ObjectKeys(hcall.data[1])) = 2
    /\ hcall.data[1] # hcall.data[2]
    /\ \E j \in 1..Len(hcall.text) : hcall.text[j] = Dollar(4)

(***************************************************************************)
(* C4: an update whose statement returns no row throws the RiftError       *)
(* 'Update failed: no rows affected'; one whose statement returns exactly  *)
(* one row returns that row and throws nothing.                            *)
(***************************************************************************)
C4_UpdateZeroRowsThrows ==
    (hcall.op = "update" /\ hpc = "done" /\ driver.kind = "rows") =>
        /\ Len(driver.rows) = 0 =>
             /\ hret.kind = "throw"
             /\ hret.err.class = "RiftError"
             /\ hret.err.message = << Line("Update failed: no rows affected", <<>>) >>
        /\ Len(driver.rows) = 1 =>
             /\ hret.kind = "row"
             /\ hret.rows = << driver.rows[1] >>

C4_Witness ==
    /\ hcall.op = "update"
    /\ hpc = "done"
    /\ driver.kind = "rows"
    /\ Len(driver.rows) = 0
    /\ hret.kind = "throw"
    /\ Len(hcall.where) = 1
    /\ Len(hcall.data) = 1

(***************************************************************************)
(* C5: every rejection of conn.query inside a helper leaves it as a        *)
(* RiftError: for a pg.DatabaseError the message has the code, detail,     *)
(* hint and position lines ('N/A' when absent), the SQL text and the       *)
(* serialized parameters; for anything else it is the single line          *)
(* 'Query failed: ' with the original message, or 'unknown error' when the *)
(* thrown value is no Error, and carries neither the SQL nor parameters.   *)
(***************************************************************************)
C5_EveryFailureIsRiftError ==
    (hpc = "done" /\ driver.kind = "throw") =>
        /\ hret.kind = "throw"
        /\ hret.err.class = "RiftError"
        /\ LET e == driver.e
               lines == hret.err.message
           IN  IF IsDatabaseError(e)
               THEN /\ \E m \in 1..Len(lines) :
                          lines[m] = Line("Query: ", hcall.text)
                    /\ \E m \in 1..Len(lines) :
                          lines[m] = Line("Values: ", JSONStringify(hcall.values))
                    /\ \E m \in 1..Len(lines) :
                          lines[m] = Line("Code: ", <<IF e.code.present
                                                      THEN e.code.s ELSE "N/A">>)
                    /\ \E m \in 1..Len(lines) :
                          lines[m] = Line("Detail: ", <<IF e.detail.present
                                                        THEN e.detail.s ELSE "N/A">>)
                    /\ \E m \in 1..Len(lines) :
                          lines[m] = Line("Hint: ", <<IF e.hint.present
                                                      THEN e.hint.s ELSE "N/A">>)
                    /\ \E m \in 1..Len(lines) :
                          lines[m] = Line("Position: ", <<IF e.position.present
                                                          THEN e.position.s ELSE "N/A">>)
               ELSE lines = << Line("Query failed: ",
                                    <<IF e.class = "Error" THEN e.message
                                      ELSE "unknown error">>) >>

(***************************************************************************)
(* C6: insert with no rows returns the empty sequence and submits nothing  *)
(* on the connection, for any table and any conflict-column list.          *)
(***************************************************************************)
C6_InsertEmptyTouchesNothing ==
    (hcall.op = "insert" /\ hpc # "idle" /\ Len(hcall.data) = 0) =>
        /\ hpc = "done"
        /\ hret.kind = "rows"
        /\ hret.rows = <<>>
        /\ issued = <<>>
        /\ driver.kind = "none"
        /\ checkedOut = {}

C6_Witness ==
    /\ hcall.op = "insert"
    /\ hpc = "done"
    /\ Len(hcall.data) = 0
    /\ hcall.conflict.cols = <<"id">>
    /\ hret.rows = <<>>

(***************************************************************************)
(* C7 as stated: whenever init_pool throws, what it throws is a RiftError  *)
(* and the pool exists.                                                    *)
(***************************************************************************)
C7_BootstrapFailureIsRiftError ==
    \A i \in CallIds :
        calls[i].pc = "thrown" =>
            /\ calls[i].err.class = "RiftError"
            /\ pool.exists

(***************************************************************************)
(* C7 amended: when init_pool throws the pool exists; a failure of the     *)
(* script's query reaches the caller as a RiftError, and a rejection of    *)
(* pool.connect() reaches the caller as the driver's own error, unwrapped. *)
(***************************************************************************)
C7_BootstrapFailurePropagates ==
    \A i \in CallIds :
        calls[i].pc = "thrown" =>
            /\ pool.exists
            /\ pool = NewPool(calls[i].conf)
            /\ calls[i].stage \in {"connect", "query"}
            /\ calls[i].stage = "query" => calls[i].err.class = "RiftError"
            /\ calls[i].stage = "connect" => calls[i].err \in ConnectErrors

C7_Witness ==
    \E i \in CallIds :
        /\ calls[i].pc = "thrown"
        /\ calls[i].stage = "query"
        /\ calls[i].err.class = "RiftError"
        /\ pool.exists

(***************************************************************************)
(* C8: remove submits a statement with no RETURNING clause and resolves    *)
(* to no value whatever rows the statement reports, none included.         *)
(***************************************************************************)
C8_RemoveIgnoresRowCount ==
    (hcall.op = "remove" /\ hpc # "idle") =>
        /\ Len(issued) = 1
        /\ issued[1].text = hcall.text
        /\ \A j \in 1..Len(hcall.text) :
              hcall.text[j] \notin {"returning *", "RETURNING *;", "returning",
                                    "RETURNING"}
        /\ (hpc = "done" /\ driver.kind = "rows") =>
              /\ hret.kind = "void"
              /\ hret.rows = <<>>

C8_Witness ==
    /\ hcall.op = "remove"
    /\ hpc = "done"
    /\ driver.kind = "rows"
    /\ Len(driver.rows) = 0
    /\ Len(hcall.where) = 1
    /\ hret.kind = "void"

(***************************************************************************)
(* C9: for an update with N data keys and M where keys the SET clause      *)
(* assigns data key i the placeholder $i, in key order; the WHERE clause   *)
(* compares where key j with $(N+j), in key order, the comparisons joined  *)
(* by and; the parameter list is the N data values followed by the M where *)
(* values, so placeholder $p stands for the value at index p-1 of the same *)
(* column; each of $1..$(N+M) occurs once.                                 *)
(***************************************************************************)
C9_UpdatePlaceholderNumbering ==
    (hcall.op = "update" /\ hpc # "idle") =>
        LET data == hcall.data
            where == hcall.where
            N == Len(data)
            M == Len(where)
            text == issued[Len(issued)].text
            values == issued[Len(issued)].values
            si == IndexOf(text, "set")
            wi == IndexOf(text, "where")
            setEqs == EqualsBetween(text, si, wi)
            whereEqs == EqualsBetween(text, wi, Len(text) + 1)
            phs == PlaceholderPositions(text)
        IN  /\ Len(issued) = 1
            /\ Len(values) = N + M
            /\ Cardinality(setEqs) = N
            /\ \A j \in setEqs :
                  LET i == RankIn(setEqs, j)
                  IN  /\ text[j - 1] = data[i].k
                      /\ text[j + 1] = Dollar(i)
                      /\ values[i] = data[i].v
            /\ Cardinality(whereEqs) = M
            /\ \A j \in whereEqs :
                  LET i == RankIn(whereEqs, j)
                  IN  /\ text[j - 1] = where[i].k
                      /\ text[j + 1] = Dollar(N + i)
                      /\ values[N + i] = where[i].v
                      /\ i > 1 => text[j - 2] = "and"
            /\ Cardinality(phs) = N + M
            /\ \A p \in 1..(N + M) :
                  Cardinality({ j \in phs : text[j] = Dollar(p) }) = 1

C9_Witness ==
    /\ hcall.op = "update"
    /\ hpc = "awaiting"
    /\ Len(hcall.data) = 2
    /\ Len(hcall.where) = 2
    /\ \E j \in 1..Len(hcall.text) : hcall.text[j] = Dollar(4)

(***************************************************************************)
(* C10: when every init_pool call made so far was given an initialization  *)
(* script, whatever the interleaving of the calls, a call that has         *)
(* returned normally finds the script already executed successfully on the *)
(* database.                                                               *)
(***************************************************************************)
C10_ReturnImpliesScriptDone ==
    (\A m \in 1..Len(callOrder) :
        TruthyStr(calls[callOrder[m]].conf.initial_script)) =>
        \A i \in CallIds : calls[i].pc = "returned" => dbScripts # <<>>

=============================================================================
